---- MODULE Spec2Model ----
(***************************************************************************)
(* Model of the tsrouter-setup repository.                                 *)
(*                                                                         *)
(*  - vite.config.ts: the build configuration.  Evaluating the module     *)
(*    calls the three plugin factories in array order, builds the alias   *)
(*    table and hands the object to defineConfig.  The bundler then       *)
(*    starts, the router plugin generates the route table from the files  *)
(*    under src/routes (skipping the names its options tell it to         *)
(*    ignore) and regenerates it when the watcher reports a change, and   *)
(*    module references are resolved through the alias table.             *)
(*  - .cursor/rules/frontend.mdc: the documented page layout and the      *)
(*    documented view-model hook useHogeViewModel (loading flag, update   *)
(*    mutation with its onSuccess/onError callbacks, handleSubmit).       *)
(*                                                                         *)
(* File and directory names are sequences of one-character strings, so    *)
(* that the ignore pattern is matched character by character.  Module     *)
(* references and file-system paths are sequences of '/'-separated        *)
(* segments.                                                               *)
(***************************************************************************)
EXTENDS Integers, Sequences, FiniteSets

VARIABLES
    pc,          \* position of the evaluation of vite.config.ts / bundler phase
    plugins,     \* plugin descriptors registered so far, in registration order
    alias,       \* resolve.alias table: sequence of [find, replacement]
    files,       \* files present under src/routes (paths relative to it)
    routes,      \* generated route table: sequence of [filePath, routePath]
    fresh,       \* TRUE when routes was generated from the current files
    changes,     \* number of file-system changes so far (bounded)
    imports,     \* number of module resolutions so far (bounded)
    lastImport,  \* the last module resolution: <<reference, resolved id>>
    loading,     \* useState(false) of the view-model hook
    call,        \* per handleSubmit call: position of the async function
    outcome,     \* per handleSubmit call: how the mutation settled
    toasts,      \* toasts shown so far, in order
    invalidated, \* number of invalidateQueries(['hoge-data']) calls
    dataQuery    \* status of the 'hoge-data' query

buildVars == <<pc, plugins, alias, files, routes, fresh, changes, imports, lastImport>>
hookVars == <<loading, call, outcome, toasts, invalidated, dataQuery>>
vars == <<pc, plugins, alias, files, routes, fresh, changes, imports, lastImport,
          loading, call, outcome, toasts, invalidated, dataQuery>>

(***************************************************************************)
(* Bounds of the model.                                                    *)
(***************************************************************************)
MaxChanges == 2
MaxImports == 1
MaxCalls == 2

(***************************************************************************)
(* Names occurring under src/routes.                                       *)
(***************************************************************************)
n_index == <<"i","n","d","e","x">>
n_dashboard == <<"d","a","s","h","b","o","a","r","d">>
n_id == <<"$","i","d">>
n_voices == <<"v","o","i","c","e","s">>
n_components == <<"-","c","o","m","p","o","n","e","n","t","s">>
n_tests == <<"_","_","t","e","s","t","s","_","_">>
n_route_tsx == <<"r","o","u","t","e",".","t","s","x">>
n_route_model_ts == <<"r","o","u","t","e",".","m","o","d","e","l",".","t","s">>
n_HogeForm_tsx == <<"H","o","g","e","F","o","r","m",".","t","s","x">>
n_route_model_tsx == <<"r","o","u","t","e",".","m","o","d","e","l",".","t","s","x">>
n_route_test_tsx == <<"r","o","u","t","e",".","t","e","s","t",".","t","s","x">>
n_route_test_ts == <<"r","o","u","t","e",".","t","e","s","t",".","t","s">>
n_datamodel_ts == <<"d","a","t","a","m","o","d","e","l",".","t","s">>
n_model_ts == <<"m","o","d","e","l",".","t","s">>
n_Button_stories_tsx == <<"B","u","t","t","o","n",".","s","t","o","r","i","e","s",".","t","s","x">>
n_helper_tsx == <<"h","e","l","p","e","r",".","t","s","x">>
n_README_md == <<"R","E","A","D","M","E",".","m","d">>
n_about_tsx == <<"a","b","o","u","t",".","t","s","x">>

\* Further files a developer may add next to the documented ones.
OtherFiles ==
    <<  <<n_dashboard, n_route_model_tsx>>,
        <<n_dashboard, n_route_test_tsx>>,
        <<n_dashboard, n_route_test_ts>>,
        <<n_dashboard, n_Button_stories_tsx>>,
        <<n_dashboard, n_tests, n_helper_tsx>>,
        <<n_datamodel_ts>>,
        <<n_model_ts>>,
        <<n_about_tsx>>,
        <<n_README_md>> >>

(***************************************************************************)
(* The documented page layout (frontend.mdc, "file-based routing placement *)
(* rules"), with one component file in each -components folder.   *)
(***************************************************************************)
DocumentedFiles ==
    <<  <<n_index, n_route_tsx>>,
        <<n_index, n_route_model_ts>>,
        <<n_index, n_components, n_HogeForm_tsx>>,
        <<n_dashboard, n_route_tsx>>,
        <<n_dashboard, n_route_model_ts>>,
        <<n_dashboard, n_components, n_HogeForm_tsx>>,
        <<n_id, n_route_tsx>>,
        <<n_id, n_route_model_ts>>,
        <<n_id, n_components, n_HogeForm_tsx>>,
        <<n_id, n_voices, n_route_tsx>>,
        <<n_id, n_voices, n_route_model_ts>> >>

\* Every file the model knows, in directory-listing order.
FileU == DocumentedFiles \o OtherFiles

AllFiles == { FileU[i] : i \in 1..Len(FileU) }

DocumentedLayout == { DocumentedFiles[i] : i \in 1..Len(DocumentedFiles) }

FileName(path) == path[Len(path)]

(***************************************************************************)
(* vite.config.ts:13, the option handed to the router plugin.              *)
(***************************************************************************)
routeFileIgnorePattern_noModel ==
    <<".","s","t","o","r","i","e","s",".","t","s","x","|",
      ".","t","e","s","t",".","t","s","|",
      "_","_","t","e","s","t","s","_","_">>

routeFileIgnorePattern ==
    <<".","s","t","o","r","i","e","s",".","t","s","x","|",
      ".","m","o","d","e","l",".","t","s","|",
      ".","t","e","s","t",".","t","s","|",
      "_","_","t","e","s","t","s","_","_">>

(***************************************************************************)
(* String helpers.                                                         *)
(***************************************************************************)
StartsWith(s, p) ==
    /\ Len(p) <= Len(s)
    /\ \A k \in 1..Len(p) : s[k] = p[k]

EndsWith(s, p) ==
    /\ Len(p) <= Len(s)
    /\ \A k \in 1..Len(p) : s[Len(s) - Len(p) + k] = p[k]

Contains(s, p) ==
    \E i \in 1..(Len(s) + 1) :
        /\ i + Len(p) - 1 <= Len(s)
        /\ \A k \in 1..Len(p) : s[i + k - 1] = p[k]

\* Position of the last "." of a name, 0 when there is none.
LastDot(s) ==
    LET dots == { i \in 1..Len(s) : s[i] = "." }
    IN  IF dots = {} THEN 0 ELSE CHOOSE i \in dots : \A j \in dots : j <= i

(***************************************************************************)
(* The ignore pattern is a regular expression: alternatives separated by   *)
(* "|", where "." stands for any one character and every other character   *)
(* of the configured pattern for itself; it is searched anywhere in the    *)
(* name (no anchors).                                                      *)
(***************************************************************************)
RECURSIVE SplitAlternatives(_)
SplitAlternatives(p) ==
    LET bars == { i \in 1..Len(p) : p[i] = "|" }
    IN  IF bars = {} THEN <<p>>
        ELSE LET b == CHOOSE i \in bars : \A j \in bars : i <= j
             IN  <<SubSeq(p, 1, b - 1)>> \o SplitAlternatives(SubSeq(p, b + 1, Len(p)))

AtomMatches_literalDot(atom, ch) == atom = ch

AtomMatches(atom, ch) == atom = "." \/ atom = ch

AltMatchesAt(alt, s, i) ==
    /\ i + Len(alt) - 1 <= Len(s)
    /\ \A k \in 1..Len(alt) : AtomMatches(alt[k], s[i + k - 1])

RegExpMatch(pattern, s) ==
    LET alts == SplitAlternatives(pattern)
    IN  \E a \in 1..Len(alts) : \E i \in 1..(Len(s) + 1) : AltMatchesAt(alts[a], s, i)

(***************************************************************************)
(* The router plugin's generator.  It walks src/routes; an entry (file or  *)
(* directory) is skipped when its name starts with "." or with the ignore  *)
(* prefix "-" (the -components convention of frontend.mdc), or matches the *)
(* configured ignore pattern; a skipped directory is not entered.  Every   *)
(* remaining .tsx/.ts/.jsx/.js file becomes one route node.                *)
(***************************************************************************)
routeFileIgnorePrefix == <<"-">>

KeepEntry_noPattern(options, name) ==
    /\ ~StartsWith(name, <<".">>)
    /\ ~StartsWith(name, routeFileIgnorePrefix)

KeepEntry(options, name) ==
    /\ ~StartsWith(name, <<".">>)
    /\ ~StartsWith(name, routeFileIgnorePrefix)
    /\ ~RegExpMatch(options.routeFileIgnorePattern, name)

IsRouteSource(name) ==
    \/ EndsWith(name, <<".","t","s","x">>)
    \/ EndsWith(name, <<".","t","s">>)
    \/ EndsWith(name, <<".","j","s","x">>)
    \/ EndsWith(name, <<".","j","s">>)

Survives(options, path) ==
    \A i \in 1..Len(path) : KeepEntry(options, path[i])

RemoveExt(name) ==
    IF LastDot(name) <= 1 THEN name ELSE SubSeq(name, 1, LastDot(name) - 1)

\* The route path of a file, as its sequence of segments (<<>> is "/"):
\* the directory path, with the file's base name appended unless it is
\* the route token "route", and a trailing index token "index" dropped.
RoutePath(path) ==
    LET dirs == SubSeq(path, 1, Len(path) - 1)
        base == RemoveExt(FileName(path))
        segs == IF base = <<"r","o","u","t","e">> THEN dirs ELSE Append(dirs, base)
    IN  IF segs # <<>> /\ segs[Len(segs)] = n_index
        THEN SubSeq(segs, 1, Len(segs) - 1)
        ELSE segs

GenerateRoutes_topLevelOnly(options, present) ==
    LET IsNode(path) == /\ path \in present
                        /\ Len(path) = 1
                        /\ Survives(options, path)
                        /\ IsRouteSource(FileName(path))
        nodes == SelectSeq(FileU, IsNode)
    IN  [ i \in 1..Len(nodes) |-> [filePath |-> nodes[i], routePath |-> RoutePath(nodes[i])] ]

GenerateRoutes(options, present) ==
    LET IsNode(path) == /\ path \in present
                        /\ Survives(options, path)
                        /\ IsRouteSource(FileName(path))
        nodes == SelectSeq(FileU, IsNode)
    IN  [ i \in 1..Len(nodes) |-> [filePath |-> nodes[i], routePath |-> RoutePath(nodes[i])] ]

(***************************************************************************)
(* vite.config.ts:9-23, the configuration object.                          *)
(***************************************************************************)
PluginList_reactFirst ==
    <<  [name |-> "react", args |-> <<>>],
        [name |-> "TanStackRouterVite",
         args |-> << [autoCodeSplitting |-> TRUE,
                      routeFileIgnorePattern |-> routeFileIgnorePattern] >>],
        [name |-> "tailwindcss", args |-> <<>>] >>

PluginList ==
    <<  [name |-> "TanStackRouterVite",
         args |-> << [autoCodeSplitting |-> TRUE,
                      routeFileIgnorePattern |-> routeFileIgnorePattern] >>],
        [name |-> "react", args |-> <<>>],
        [name |-> "tailwindcss", args |-> <<>>] >>

\* __dirname of vite.config.ts, an absolute path.
ProjectRoot == <<"project">>

\* node:path resolve(base, rel) for an absolute base: "." segments are
\* dropped and ".." removes the segment before it.
PathResolve_keepDot(base, rel) == base \o rel

RECURSIVE PathResolve(_, _)
PathResolve(base, rel) ==
    IF rel = <<>> THEN base
    ELSE IF Head(rel) = "." THEN PathResolve(base, Tail(rel))
    ELSE IF Head(rel) = ".."
         THEN PathResolve(IF base = <<>> THEN base ELSE SubSeq(base, 1, Len(base) - 1),
                          Tail(rel))
    ELSE PathResolve(Append(base, Head(rel)), Tail(rel))

AliasTable == << [find |-> "@", replacement |-> PathResolve(ProjectRoot, <<".", "src">>)] >>

\* The options the router plugin was created with.
RouterOptions ==
    LET i == CHOOSE j \in 1..Len(plugins) : plugins[j].name = "TanStackRouterVite"
    IN  plugins[i].args[1]

\* Module references of the documented sources (frontend.mdc:25-29, 110-113).
ModuleRefs ==
    { <<"@", "components", "ui", "Toast">>,
      <<"@", "lib", "hono">>,
      <<"@", "components", "layout", "PageHeader">>,
      <<"@tanstack", "react-query">>,
      <<"@tanstack", "react-router">>,
      <<"react">>,
      <<".", "route.model">>,
      <<".", "-components", "HogeForm">> }

\* resolve.alias: the first entry whose key is the reference's first
\* segment replaces that segment; other references are left alone.
ResolveAlias(table, ref) ==
    LET hits == { i \in 1..Len(table) : table[i].find = Head(ref) }
    IN  IF hits = {} THEN ref
        ELSE LET h == CHOOSE i \in hits : \A j \in hits : i <= j
             IN  table[h].replacement \o Tail(ref)

(***************************************************************************)
(* frontend.mdc:35-103, the documented view-model hook useHogeViewModel.   *)
(***************************************************************************)
Calls == 1..MaxCalls

\* updateMutation's callbacks (frontend.mdc:60-66): the toast each shows,
\* and whether the 'hoge-data' query is invalidated.
ToastOnSettle(result) == IF result = "success" THEN "success" ELSE "error"

InvalidatesOnSettle_always(result) == TRUE

InvalidatesOnSettle(result) == result = "success"

\* handleSubmit's finally block (frontend.mdc:81-83): setLoading(false)
\* runs however the awaited mutation settled.
LoadingAfterSubmit_noFinally(result, current) ==
    IF result = "success" THEN FALSE ELSE current

LoadingAfterSubmit(result, current) == FALSE

\* A mutation started by mutateAsync whose request has not settled yet.
InFlight(c) == call[c] = "awaiting" /\ outcome[c] = "none"

(***************************************************************************)
(* Initial state: vite.config.ts is about to be evaluated; the routes      *)
(* directory holds the documented layout or is empty; the hook has just    *)
(* been mounted (loading false, the data query fetching).                  *)
(***************************************************************************)
Init ==
    /\ pc = "plugins"
    /\ plugins = <<>>
    /\ alias = <<>>
    /\ files \in {DocumentedLayout, {}}
    /\ routes = <<>>
    /\ fresh = FALSE
    /\ changes = 0
    /\ imports = 0
    /\ lastImport = <<>>
    /\ loading = FALSE
    /\ call = [c \in Calls |-> "idle"]
    /\ outcome = [c \in Calls |-> "none"]
    /\ toasts = <<>>
    /\ invalidated = 0
    /\ dataQuery = "fetching"

(***************************************************************************)
(* Evaluation of vite.config.ts and bundler start-up.                      *)
(***************************************************************************)
\* vite.config.ts:10-17: the elements of the plugins array are evaluated
\* left to right, each factory call yielding one plugin.
RegisterPlugin ==
    /\ pc = "plugins"
    /\ Len(plugins) < Len(PluginList)
    /\ plugins' = Append(plugins, PluginList[Len(plugins) + 1])
    /\ UNCHANGED <<pc, alias, files, routes, fresh, changes, imports, lastImport>>
    /\ UNCHANGED hookVars

\* vite.config.ts:18-22: the resolve.alias table, evaluated after the array.
DefineAlias ==
    /\ pc = "plugins"
    /\ Len(plugins) = Len(PluginList)
    /\ alias' = AliasTable
    /\ pc' = "alias"
    /\ UNCHANGED <<plugins, files, routes, fresh, changes, imports, lastImport>>
    /\ UNCHANGED hookVars

\* vite.config.ts:9,23: defineConfig receives the finished object.
DefineConfig ==
    /\ pc = "alias"
    /\ pc' = "configured"
    /\ UNCHANGED <<plugins, alias, files, routes, fresh, changes, imports, lastImport>>
    /\ UNCHANGED hookVars

\* The bundler starts: the router plugin generates the route table.
BuildStart ==
    /\ pc = "configured"
    /\ routes' = GenerateRoutes(RouterOptions, files)
    /\ fresh' = TRUE
    /\ pc' = "serving"
    /\ UNCHANGED <<plugins, alias, files, changes, imports, lastImport>>
    /\ UNCHANGED hookVars

\* A file appears under src/routes while the dev server runs.
AddFile(f) ==
    /\ pc = "serving"
    /\ changes < MaxChanges
    /\ f \notin files
    /\ files' = files \cup {f}
    /\ fresh' = FALSE
    /\ changes' = changes + 1
    /\ UNCHANGED <<pc, plugins, alias, routes, imports, lastImport>>
    /\ UNCHANGED hookVars

\* A file under src/routes is deleted while the dev server runs.
RemoveFile(f) ==
    /\ pc = "serving"
    /\ changes < MaxChanges
    /\ f \in files
    /\ files' = files \ {f}
    /\ fresh' = FALSE
    /\ changes' = changes + 1
    /\ UNCHANGED <<pc, plugins, alias, routes, imports, lastImport>>
    /\ UNCHANGED hookVars

\* The router plugin's watcher handler: regenerate the route table.
Regenerate ==
    /\ pc = "serving"
    /\ ~fresh
    /\ routes' = GenerateRoutes(RouterOptions, files)
    /\ fresh' = TRUE
    /\ UNCHANGED <<pc, plugins, alias, files, changes, imports, lastImport>>
    /\ UNCHANGED hookVars

\* The bundler resolves a module reference through resolve.alias.
ResolveModule(ref) ==
    /\ pc = "serving"
    /\ imports < MaxImports
    /\ lastImport' = <<ref, ResolveAlias(alias, ref)>>
    /\ imports' = imports + 1
    /\ UNCHANGED <<pc, plugins, alias, files, routes, fresh, changes>>
    /\ UNCHANGED hookVars

Next ==
    \/ RegisterPlugin
    \/ DefineAlias
    \/ DefineConfig
    \/ BuildStart
    \/ \E f \in AllFiles : AddFile(f)
    \/ \E f \in AllFiles : RemoveFile(f)
    \/ Regenerate
    \/ \E ref \in ModuleRefs : ResolveModule(ref)

Spec == Init /\ [][Next]_vars

(***************************************************************************)
(* The view-model hook at run time.                                        *)
(***************************************************************************)
\* frontend.mdc:77-80: handleSubmit runs up to its await: setLoading(true),
\* then mutateAsync starts the mutation (the POST of mutationFn).
HandleSubmit(c) ==
    /\ call[c] = "idle"
    /\ loading' = TRUE
    /\ call' = [call EXCEPT ![c] = "awaiting"]
    /\ UNCHANGED <<outcome, toasts, invalidated, dataQuery>>
    /\ UNCHANGED buildVars

\* frontend.mdc:56-67: the request settles; the mutation runs onSuccess or
\* onError and then settles the promise handleSubmit awaits.
MutationSettles(c, result) ==
    /\ InFlight(c)
    /\ outcome' = [outcome EXCEPT ![c] = result]
    /\ toasts' = Append(toasts, ToastOnSettle(result))
    /\ invalidated' = IF InvalidatesOnSettle(result) THEN invalidated + 1 ELSE invalidated
    /\ dataQuery' = IF InvalidatesOnSettle(result) THEN "fetching" ELSE dataQuery
    /\ UNCHANGED <<loading, call>>
    /\ UNCHANGED buildVars

\* frontend.mdc:81-84: handleSubmit resumes: the finally block runs, then
\* the call's promise resolves, or rejects with the mutation's error.
HandleSubmitFinally(c) ==
    /\ call[c] = "awaiting"
    /\ outcome[c] # "none"
    /\ loading' = LoadingAfterSubmit(outcome[c], loading)
    /\ call' = [call EXCEPT ![c] = IF outcome[c] = "success" THEN "resolved" ELSE "rejected"]
    /\ UNCHANGED <<outcome, toasts, invalidated, dataQuery>>
    /\ UNCHANGED buildVars

\* frontend.mdc:47-53: the queryFn of the 'hoge-data' query settles.
QuerySettles(result) ==
    /\ dataQuery = "fetching"
    /\ dataQuery' = result
    /\ UNCHANGED <<loading, call, outcome, toasts, invalidated>>
    /\ UNCHANGED buildVars

HookNext ==
    \/ \E c \in Calls : HandleSubmit(c)
    \/ \E c \in Calls : \E result \in {"success", "error"} : MutationSettles(c, result)
    \/ \E c \in Calls : HandleSubmitFinally(c)
    \/ \E result \in {"success", "error"} : QuerySettles(result)

HookInit == Init /\ files = DocumentedLayout

HookSpec == HookInit /\ [][HookNext]_vars

(***************************************************************************)
(* Properties.                                                             *)
(***************************************************************************)
\* Number of entries of the route table for a file.
EntriesFor(f) == Cardinality({ i \in 1..Len(routes) : routes[i].filePath = f })

MatchesIgnorePattern(name) == RegExpMatch(routeFileIgnorePattern, name)

\* C1: a file whose name matches the configured exclusion pattern never
\* has an entry in the route table, whatever files are present and after
\* any additions and removals, regenerated or not.
C1_ExcludedFilesHaveNoRoute ==
    \A i \in 1..Len(routes) : ~MatchesIgnorePattern(FileName(routes[i].filePath))

C1_Witness ==
    /\ fresh
    /\ changes > 0
    /\ routes # <<>>
    /\ <<n_dashboard, n_route_test_ts>> \in files
    /\ \E f \in files : MatchesIgnorePattern(FileName(f))

C2_Routable(f) ==
    /\ IsRouteSource(FileName(f))
    /\ \A k \in 1..Len(f) :
          /\ ~MatchesIgnorePattern(f[k])
          /\ f[k][1] \notin {".", "-"}

C3_AliasResolvesToSrc ==
    lastImport # <<>> =>
        LET ref == lastImport[1]
            to  == lastImport[2]
        IN  IF Head(ref) = "@"
            THEN to = <<"project", "src">> \o Tail(ref)
            ELSE to = ref

C3_Witness ==
    /\ lastImport # <<>>
    /\ lastImport[1] = <<"@", "components", "ui", "Toast">>
    /\ lastImport[2] = <<"project", "src", "components", "ui", "Toast">>

\* C4: plugins are registered once each and in list order (router, React,
\* Tailwind), only the router plugin receives the exclusion pattern, and
\* no route generation or module resolution happens before all three are
\* registered.
C4_PluginsRegisteredInOrder ==
    /\ Len(plugins) <= 3
    /\ \A i \in 1..Len(plugins) :
          plugins[i].name = <<"TanStackRouterVite", "react", "tailwindcss">>[i]
    /\ \A i \in 1..Len(plugins) :
          (\E a \in 1..Len(plugins[i].args) :
              plugins[i].args[a].routeFileIgnorePattern = routeFileIgnorePattern)
          <=> i = 1
    /\ (fresh \/ routes # <<>> \/ imports > 0 \/ lastImport # <<>>) => Len(plugins) = 3

C4_Witness ==
    /\ Len(plugins) = 3
    /\ fresh
    /\ routes # <<>>
    /\ imports > 0

\* C5: for the documented page layout the route table holds exactly one
\* route per route.tsx (/, /dashboard, /$id, /$id/voices) and no route for
\* a route.model.ts file or a file under a -components folder.
C5_DocumentedLayoutRoutes ==
    (fresh /\ DocumentedLayout \subseteq files) =>
        /\ \A f \in DocumentedLayout :
              EntriesFor(f) = (IF FileName(f) = n_route_tsx THEN 1 ELSE 0)
        /\ \A i \in 1..Len(routes) :
              /\ FileName(routes[i].filePath) # n_route_model_ts
              /\ \A k \in 1..Len(routes[i].filePath) :
                    routes[i].filePath[k] # n_components
        /\ { routes[i].routePath :
                i \in { j \in 1..Len(routes) : routes[j].filePath \in DocumentedLayout } }
             = { <<>>, <<n_dashboard>>, <<n_id>>, <<n_id, n_voices>> }
        /\ files = DocumentedLayout => Len(routes) = 4

C5_Witness ==
    /\ fresh
    /\ files = DocumentedLayout
    /\ Len(routes) = 4

\* The exclusion the claim describes: the name ends in one of the three
\* dotted markers, or contains the __tests__ marker.
C6_SuffixExcluded(name) ==
    \/ EndsWith(name, <<".","s","t","o","r","i","e","s",".","t","s","x">>)
    \/ EndsWith(name, <<".","m","o","d","e","l",".","t","s">>)
    \/ EndsWith(name, <<".","t","e","s","t",".","t","s">>)
    \/ Contains(name, n_tests)

\* C6 as stated: the dotted alternatives exclude a file only when its name
\* ends in the marker, so a source file that merely contains the marker
\* characters elsewhere is still a route.
C6_MarkersAreSuffixes ==
    fresh => \A f \in files :
                ( /\ IsRouteSource(FileName(f))
                  /\ \A k \in 1..Len(f) :
                        ~C6_SuffixExcluded(f[k]) /\ f[k][1] \notin {".", "-"} )
                => EntriesFor(f) = 1

\* C6 amended: the alternatives are searched anywhere in the name with "."
\* standing for any character: route.model.tsx, route.test.tsx and
\* datamodel.ts get no route (like route.model.ts, route.test.ts and
\* Button.stories.tsx), while model.ts, with nothing before "model", does.
C6_MarkersMatchAnywhere ==
    fresh => \A f \in files :
                /\ FileName(f) \in { n_route_model_tsx, n_route_test_tsx, n_datamodel_ts,
                                     n_route_model_ts, n_route_test_ts, n_Button_stories_tsx }
                      => EntriesFor(f) = 0
                /\ f = <<n_model_ts>> => EntriesFor(f) = 1

C6_Witness ==
    /\ fresh
    /\ <<n_datamodel_ts>> \in files
    /\ <<n_model_ts>> \in files
    /\ EntriesFor(<<n_model_ts>>) = 1

\* C8: handleSubmit sets loading to true as it starts the mutation, and
\* when it finishes, after a successful or a failed mutation, it sets
\* loading to false and propagates a failure to its caller.
C8_LoadingAroundSubmit ==
    [][ \A c \in Calls :
          /\ (call[c] = "idle" /\ call'[c] # "idle")
                => (loading' = TRUE /\ call'[c] = "awaiting" /\ outcome'[c] = "none")
          /\ (call[c] = "awaiting" /\ call'[c] # "awaiting")
                => /\ loading' = FALSE
                   /\ outcome[c] # "none"
                   /\ call'[c] = (IF outcome[c] = "error" THEN "rejected" ELSE "resolved") ]_vars

C8_Witness ==
    /\ \E c \in Calls : call[c] = "rejected" /\ outcome[c] = "error"
    /\ \A c \in Calls : call[c] # "awaiting"
    /\ loading = FALSE

\* C9: every settled mutation has produced exactly one toast, a success
\* toast with an invalidation of 'hoge-data' when it succeeded and an error
\* toast without one when it failed; so the query is invalidated exactly
\* once per successful mutation.
C9_OneToastPerSettledMutation ==
    LET settled   == { c \in Calls : outcome[c] # "none" }
        succeeded == { c \in Calls : outcome[c] = "success" }
    IN  /\ Len(toasts) = Cardinality(settled)
        /\ Cardinality({ i \in 1..Len(toasts) : toasts[i] = "success" }) = Cardinality(succeeded)
        /\ Cardinality({ i \in 1..Len(toasts) : toasts[i] = "error" })
             = Cardinality(settled \ succeeded)
        /\ invalidated = Cardinality(succeeded)

C9_Witness ==
    /\ \E c \in Calls : outcome[c] = "success"
    /\ \E c \in Calls : outcome[c] = "error"
    /\ Len(toasts) = 2
    /\ invalidated = 1

\* C10: with overlapping handleSubmit calls, loading is true in every
\* state in which a submitted mutation is still in flight.
C10_LoadingWhileInFlight ==
    (\E c \in Calls : InFlight(c)) => loading
====
